---- MODULE Spec2Model ----
(***************************************************************************)
(* The system instructions of the Frontier EVM (CREATE, RETURN, CALL,      *)
(* CALLCODE, SELFDESTRUCT) as a state machine over a stack of execution    *)
(* frames and a journaled world state.                                     *)
(*                                                                         *)
(* frames[1] is the oldest modelled frame, frames[Len(frames)] the frame   *)
(* that is executing.  A frame below the top is blocked inside the         *)
(* process_message / process_create_message call of its CALL, CALLCODE or  *)
(* CREATE handler; pending[i] holds that handler's local variables.        *)
(*                                                                         *)
(* Words: TLC's integers are 32 bits wide, so the 256-bit word, the        *)
(* 160-bit address and the 64-bit nonce ceiling are scaled down            *)
(* (U256_CEIL, ADDRESS_SPACE, NONCE_CEIL), keeping their order and every   *)
(* overflow check of the code.                                             *)
(*                                                                         *)
(* The stack is a sequence whose head is the top of the stack.             *)
(***************************************************************************)
EXTENDS Integers, Sequences, FiniteSets, TLC

\* ------------------------------------------------------------------ bounds
MaxFrames == 2      \* frames modelled at once (the nesting the model follows)
MaxOps == 2         \* instructions executed, the halt of a child frame aside

\* --------------------------------------------------------------- constants
STACK_DEPTH_LIMIT == 1024
GAS_CREATE == 32000
GAS_ZERO == 0
GAS_CALL == 40
GAS_CALL_VALUE == 9000
GAS_NEW_ACCOUNT == 25000
GAS_CALL_STIPEND == 2300
GAS_CODE_DEPOSIT == 200
GAS_BASE == 2
GAS_VERY_LOW == 3
GAS_COPY == 3
GAS_BALANCE == 20
GAS_EXTERNAL == 20

U256_CEIL == 2^30               \* stands for 2^256
ADDRESS_SPACE == 2^2            \* stands for 2^160
NONCE_CEIL == 2^21 - 1          \* stands for 2^64 - 1
NoAddress == 0 - 1              \* Bytes0() / None

Address == 0 .. (ADDRESS_SPACE - 1)

VARIABLES
    frames,     \* the Evm frames, oldest first
    pending,    \* pending[i]: the handler of frames[i] blocked on frames[i+1]
    state,      \* evm.env.state: Address -> Account
    steps,      \* instructions executed so far
    last,       \* the last instruction executed: what it was and what it saw
    history     \* the CREATEs that went past the guards and the rollbacks, in order

vars == <<frames, pending, state, steps, last, history>>

\* ------------------------------------------------------------- world state
EMPTY_ACCOUNT == [nonce |-> 0, balance |-> 0, code |-> <<>>]

get_account(st, a) == st[a]

account_exists(st, a) == st[a] # EMPTY_ACCOUNT

account_has_code_or_nonce(st, a) == st[a].nonce # 0 \/ Len(st[a].code) # 0

set_account_balance(st, a, amount) == [st EXCEPT ![a].balance = amount]

increment_nonce(st, a) == [st EXCEPT ![a].nonce = @ + 1]

set_code(st, a, code) == [st EXCEPT ![a].code = code]

move_ether(st, sender, recipient, amount) ==
    LET s1 == [st EXCEPT ![sender].balance = @ - amount]
    IN [s1 EXCEPT ![recipient].balance = @ + amount]

to_address(w) == w % ADDRESS_SPACE

from_be_bytes(a) == a

\* keccak256(rlp([sender, nonce]))[12..]: a hash into the nonzero addresses
compute_contract_address(sender, nonce) ==
    1 + ((sender + nonce + 1) % (ADDRESS_SPACE - 1))

\* ------------------------------------------------------------ gas, memory
\* Uint arithmetic is unbounded in the code; here a size of SATURATED_WORDS
\* words or more costs more gas than any U256 holds (w * w \div 512 >= U256_CEIL).
SATURATED_WORDS == 2^20

words32(n) == (n \div 32) + (IF n % 32 = 0 THEN 0 ELSE 1)

ceil32(n) == words32(n) * 32

calculate_memory_gas_cost(size) ==
    LET w == size \div 32
    IN 3 * w + (w \div 512) * w + (((w % 512) * w) \div 512)

Zeros(n) == [i \in 1 .. n |-> 0]

Min(a, b) == IF a <= b THEN a ELSE b

\* subtract_gas: [raised, evm]
subtract_gas(evm, cost) ==
    IF cost > evm.gas_left
    THEN [raised |-> TRUE, evm |-> [evm EXCEPT !.gas_left = 0]]
    ELSE [raised |-> FALSE, evm |-> [evm EXCEPT !.gas_left = @ - cost]]

\* touch_memory: charge the expansion and extend with zeros: [raised, evm]
touch_memory(evm, start, size) ==
    IF size = 0
    THEN [raised |-> FALSE, evm |-> evm]
    ELSE IF words32(start + size) >= SATURATED_WORDS
    THEN [raised |-> TRUE, evm |-> [evm EXCEPT !.gas_left = 0]]
    ELSE IF ceil32(start + size) <= Len(evm.memory)
    THEN [raised |-> FALSE, evm |-> evm]
    ELSE LET new == ceil32(start + size)
             r == subtract_gas(evm, calculate_memory_gas_cost(new)
                                    - calculate_memory_gas_cost(Len(evm.memory)))
         IN IF r.raised THEN r
            ELSE [raised |-> FALSE,
                  evm |-> [r.evm EXCEPT !.memory = @ \o Zeros(new - Len(@))]]

memory_read_bytes(evm, start, size) ==
    SubSeq(evm.memory, start + 1, start + size)

\* bytes[start : stop] of Python: the bounds are clamped to the length
Slice(bytes, start, stop) ==
    SubSeq(bytes, Min(start, Len(bytes)) + 1, Min(stop, Len(bytes)))

\* memory[start : start + len(value)] = value, a slice assignment
memory_write(evm, start, value) ==
    [evm EXCEPT !.memory =
        Slice(@, 0, start) \o value \o Slice(@, start + Len(value), Len(@))]

calculate_message_call_gas_stipend(value) ==
    IF value = 0 THEN 0 ELSE GAS_CALL_STIPEND

\* u256_safe_add raises when the sum leaves U256
u256_add_overflows(a, b) == a + b >= U256_CEIL

\* gas + GAS_CALL (+ GAS_NEW_ACCOUNT) (+ GAS_CALL_VALUE)
calculate_call_gas_cost(st, gas, to, value) ==
    gas + GAS_CALL
        + (IF account_exists(st, to) THEN 0 ELSE GAS_NEW_ACCOUNT)
        + (IF value = 0 THEN 0 ELSE GAS_CALL_VALUE)

\* ------------------------------------------------------------------ frames
Message(caller, target, gas, value, data, code, current_target, depth, code_address) ==
    [caller |-> caller, target |-> target, gas |-> gas, value |-> value,
     data |-> data, code |-> code, current_target |-> current_target,
     depth |-> depth, code_address |-> code_address]

\* the frame execute_code starts from
Evm(message) ==
    [message |-> message, pc |-> 0, stack |-> <<>>, memory |-> <<>>,
     gas_left |-> message.gas, output |-> <<>>, running |-> TRUE,
     has_erred |-> FALSE, logs |-> <<>>, accounts_to_delete |-> {},
     children |-> <<>>]

\* execute_code's handler of an exception raised by an instruction
Raise(evm) ==
    [evm EXCEPT !.gas_left = 0, !.has_erred = TRUE, !.running = FALSE]

push(stack, w) == <<w>> \o stack

PopN(stack, n) == SubSeq(stack, n + 1, Len(stack))

Top == frames[Len(frames)]

NoEvm == Evm(Message(NoAddress, NoAddress, 0, 0, <<>>, <<>>, NoAddress, 0, NoAddress))

\* what the last instruction was: the frame and state it started from
Event(op, outcome, pre, prestate, child) ==
    [op |-> op, outcome |-> outcome, pre |-> pre, prestate |-> prestate,
     child |-> child]

\* Every instruction counts against MaxOps but the one that halts a child
\* frame: a child that was started always runs to its end.
Counted(evm) == evm.running \/ Len(frames) = 1

\* a CREATE past its guards: the sender and the nonce its address is made of,
\* read back from the state `st` in which the nonce is already incremented
Created(evm0, st) ==
    [kind |-> "create", sender |-> evm0.message.current_target,
     nonce |-> get_account(st, evm0.message.current_target).nonce - 1]

\* rollback(snapshot) of a frame that erred
RolledBack == [kind |-> "rollback", sender |-> NoAddress, nonce |-> 0]

\* the instruction ends inside the executing frame
Finish(evm0, evm, st, op, outcome) ==
    /\ frames' = [frames EXCEPT ![Len(frames)] = evm]
    /\ state' = st
    /\ Counted(evm) => steps < MaxOps
    /\ steps' = IF Counted(evm) THEN steps + 1 ELSE steps
    /\ last' = Event(op, outcome, evm0, state, NoEvm)
    /\ history' = IF op = "CREATE" /\ outcome = "collision"
                  THEN Append(history, Created(evm0, st))
                  ELSE history
    /\ UNCHANGED pending

\* ------------------------------------------------------------------- Init
\* The oldest modelled frame is any frame of the call tree: the top-level
\* frame (depth 0) or one under the depth ceiling.
\*   <<depth, nonce of the executing account, gas>>
Starts ==
    { <<0, 0, 100000>>,
      <<0, NONCE_CEIL, 100000>>,
      <<STACK_DEPTH_LIMIT - 1, NONCE_CEIL - 1, 100000>>,
      <<STACK_DEPTH_LIMIT, 0, 100000>> }

InitState(n) ==
    [a \in Address |->
        CASE a = 1 -> [nonce |-> n, balance |-> 10, code |-> <<7>>]
          [] a = 2 -> [nonce |-> 1, balance |-> 0, code |-> <<9, 9>>]
          [] OTHER -> EMPTY_ACCOUNT]

Init ==
    \E s \in Starts :
        /\ frames = <<Evm(Message(0, 1, s[3], 0, <<>>, <<7>>, 1, s[1], 1))>>
        /\ pending = <<>>
        /\ state = InitState(s[2])
        /\ steps = 0
        /\ last = Event("none", "init", NoEvm, InitState(s[2]), NoEvm)
        /\ history = <<>>

\* --------------------------------------------------- instructions not modelled
\* Operands as the PUSH/DUP families leave them, top of the stack first.
\*   CALL, CALLCODE: gas, to, value, in_start, in_size, out_start, out_size
CallOperands ==
    { <<50000, 2 + ADDRESS_SPACE, 0, 0, 0, 0, 0>>,
      <<2300, 3, 5, 0, 2, 1, 33>>,
      <<0, 2, 11, 0, 0, 0, 0>>,
      <<U256_CEIL - 1, 2, 5, 0, 0, 0, 0>> }
CallcodeOperands ==
    { <<2300, 2, 5, 0, 2, 1, 33>>,
      <<0, 3 + ADDRESS_SPACE, 11, 0, 0, 0, 0>> }
\*   CREATE: endowment, memory_start_position, memory_size
CreateOperands == { <<5, 0, 33>>, <<11, 0, 33>> }
\*   RETURN: memory_start_position, memory_size
ReturnOperands == { <<0, 0>>, <<0, 2>> }
\*   SELFDESTRUCT: beneficiary
SelfdestructOperands == { <<1>>, <<3>> }

OperandsOf(op) ==
    CASE op = "CALL" -> CallOperands
      [] op = "CALLCODE" -> CallcodeOperands
      [] op = "CREATE" -> CreateOperands
      [] op = "RETURN" -> ReturnOperands
      [] op = "SELFDESTRUCT" -> SelfdestructOperands

Arity(op) ==
    CASE op = "CALL" -> 7
      [] op = "CALLCODE" -> 7
      [] op = "CREATE" -> 3
      [] op = "RETURN" -> 2
      [] op = "SELFDESTRUCT" -> 1

\* The frames an instruction can start from: the executing frame once the
\* PUSH/DUP instructions before it have left its operands on the stack, or
\* the executing frame as it is when the words earlier instructions left on
\* its stack are too few for it.
Entry(op) ==
    { [Top EXCEPT !.stack = v \o @] : v \in OperandsOf(op) }
        \cup (IF Top.stack # <<>> /\ Len(Top.stack) < Arity(op) THEN {Top} ELSE {})

\* a LOG instruction, the first of its frame, appends one record to the logs
Log ==
    /\ Top.running
    /\ last.outcome \in {"init", "descend"}
    /\ LET evm == Top
           entry == [address |-> evm.message.current_target,
                     depth |-> evm.message.depth, id |-> steps]
       IN /\ frames' = [frames EXCEPT ![Len(frames)].logs = Append(@, entry)]
          /\ last' = Event("LOG", "done", Top, state, NoEvm)
          /\ UNCHANGED <<pending, state, steps, history>>

\* ------------------------------------------------------ process_message entry
\* begin_transaction, the value transfer and the fresh frame; the caller's
\* frame is left as `parent` and blocks in `op`.
Descend(evm0, parent, st, child_message, op, out_start, out_size) ==
    /\ Len(frames) < MaxFrames
    /\ steps < MaxOps
    /\ frames' = [frames EXCEPT ![Len(frames)] = parent] \o <<Evm(child_message)>>
    /\ state' = IF child_message.value # 0
                THEN move_ether(st, child_message.caller,
                                child_message.current_target, child_message.value)
                ELSE st
    /\ pending' = Append(pending,
                    [op |-> op,
                     memory_output_start_position |-> out_start,
                     memory_output_size |-> out_size,
                     snapshot |-> st,
                     pre |-> evm0,
                     prestate |-> state])
    /\ steps' = steps + 1
    /\ last' = Event(op, "descend", evm0, state, NoEvm)
    /\ history' = IF op = "CREATE" THEN Append(history, Created(evm0, st))
                  ELSE history

\* process_message after the frame has run: rollback or commit
process_message(evm, st, snapshot) ==
    [evm |-> evm, state |-> IF evm.has_erred THEN snapshot ELSE st]

\* process_create_message after the frame has run: the code deposit
process_create_message(evm, st, snapshot) ==
    IF evm.has_erred
    THEN [evm |-> evm, state |-> snapshot]
    ELSE LET contract_code_gas == Len(evm.output) * GAS_CODE_DEPOSIT
         IN IF contract_code_gas > evm.gas_left
            THEN [evm |-> Raise(evm), state |-> snapshot]
            ELSE [evm |-> [evm EXCEPT !.gas_left = @ - contract_code_gas],
                  state |-> set_code(st, evm.message.current_target, evm.output)]

Blocked(op) ==
    /\ Len(frames) > 1
    /\ ~Top.running
    /\ pending[Len(pending)].op = op

\* the finished child is folded into its parent, which resumes
Resume(parent, child, st) ==
    /\ frames' = [SubSeq(frames, 1, Len(frames) - 1) EXCEPT ![Len(frames) - 1] = parent]
    /\ pending' = SubSeq(pending, 1, Len(pending) - 1)
    /\ state' = st
    /\ last' = Event(pending[Len(pending)].op, "returned",
                     pending[Len(pending)].pre, pending[Len(pending)].prestate, child)
    /\ history' = IF child.has_erred THEN Append(history, RolledBack) ELSE history
    /\ UNCHANGED steps

\* ---------------------------------------------------------------- CREATE
\* create_guard without its depth test
create_guard_no_depth(evm, sender, endowment) ==
    \/ sender.balance < endowment
    \/ sender.nonce = NONCE_CEIL

\* create_guard with a nonce test that only stops a nonce past the ceiling
create_guard_nonce_above(evm, sender, endowment) ==
    \/ sender.balance < endowment
    \/ sender.nonce > NONCE_CEIL
    \/ evm.message.depth + 1 > STACK_DEPTH_LIMIT

\* create_guard without its nonce test
create_guard_no_nonce(evm, sender, endowment) ==
    \/ sender.balance < endowment
    \/ evm.message.depth + 1 > STACK_DEPTH_LIMIT

\* the guards of CREATE: balance, nonce ceiling, depth ceiling
create_guard(evm, sender, endowment) ==
    \/ sender.balance < endowment
    \/ sender.nonce = NONCE_CEIL
    \/ evm.message.depth + 1 > STACK_DEPTH_LIMIT

\* a rejected CREATE: push 0
create_reject(evm) == [evm EXCEPT !.stack = push(@, 0)]

\* create_hand_over without the debit of the parent
create_hand_over_no_debit(evm) ==
    [create_message_gas |-> evm.gas_left, evm |-> evm]

\* all the gas left goes to the child: [create_message_gas, evm]
create_hand_over(evm) ==
    [create_message_gas |-> evm.gas_left,
     evm |-> subtract_gas(evm, evm.gas_left).evm]

\* the address is taken: push 0
create_collide(evm) == [evm EXCEPT !.stack = push(@, 0)]

\* the child's message
create_message(evm, create_message_gas, endowment, call_data, contract_address) ==
    Message(evm.message.current_target, NoAddress, create_message_gas, endowment,
            <<>>, call_data, contract_address, evm.message.depth + 1, NoAddress)

\* CREATE up to its call of process_create_message
Create ==
    /\ Top.running
    /\ \E evm0 \in Entry("CREATE") :
       IF Len(evm0.stack) < 3
       THEN Finish(evm0, Raise([evm0 EXCEPT !.stack = <<>>]), state, "CREATE", "error")
       ELSE
       LET endowment == evm0.stack[1]
           memory_start_position == evm0.stack[2]
           memory_size == evm0.stack[3]
           evm1 == [evm0 EXCEPT !.stack = PopN(@, 3)]
           g == subtract_gas(evm1, GAS_CREATE)
           t == touch_memory(g.evm, memory_start_position, memory_size)
           call_data == memory_read_bytes(t.evm, memory_start_position, memory_size)
           sender_address == evm0.message.current_target
           sender == get_account(state, sender_address)
           evm2 == [t.evm EXCEPT !.pc = @ + 1]
       IN
       IF g.raised THEN Finish(evm0, Raise(g.evm), state, "CREATE", "error")
       ELSE IF t.raised THEN Finish(evm0, Raise(t.evm), state, "CREATE", "error")
       ELSE IF create_guard(evm2, sender, endowment)
       THEN Finish(evm0, create_reject(evm2), state, "CREATE", "rejected")
       ELSE
       LET st1 == increment_nonce(state, evm0.message.current_target)
           h == create_hand_over(evm2)
           contract_address ==
               compute_contract_address(
                   evm0.message.current_target,
                   get_account(st1, evm0.message.current_target).nonce - 1)
           is_collision == account_has_code_or_nonce(st1, contract_address)
       IN
       IF is_collision
       THEN Finish(evm0, create_collide(h.evm), st1, "CREATE", "collision")
       ELSE Descend(evm0, h.evm, st1,
                    create_message(h.evm, h.create_message_gas, endowment, call_data,
                                   contract_address),
                    "CREATE", 0, 0)

\* create_merge that leaves the parent's gas_left as it was
create_merge_keep_gas(evm, child_evm) ==
    LET e1 == [evm EXCEPT !.children = Append(@, [child_evm EXCEPT !.gas_left = 0])]
    IN IF child_evm.has_erred
       THEN [e1 EXCEPT !.stack = push(@, 0)]
       ELSE [e1 EXCEPT !.logs = @ \o child_evm.logs,
                       !.stack = push(@, from_be_bytes(
                                     child_evm.message.current_target))]

\* create_merge that takes the child's logs whether or not it erred
create_merge_logs_always(evm, child_evm) ==
    LET e1 == [evm EXCEPT !.children = Append(@, [child_evm EXCEPT !.gas_left = 0]),
                          !.logs = @ \o child_evm.logs]
        e2 == IF child_evm.has_erred
              THEN [e1 EXCEPT !.stack = push(@, 0)]
              ELSE [e1 EXCEPT !.stack = push(@, from_be_bytes(
                                            child_evm.message.current_target))]
    IN [e2 EXCEPT !.gas_left = child_evm.gas_left]

\* CREATE once process_create_message has returned child_evm: the frame `evm` after
create_merge(evm, child_evm) ==
    LET e1 == [evm EXCEPT !.children = Append(@, [child_evm EXCEPT !.gas_left = 0])]
        e2 == IF child_evm.has_erred
              THEN [e1 EXCEPT !.stack = push(@, 0)]
              ELSE [e1 EXCEPT !.logs = @ \o child_evm.logs,
                              !.stack = push(@, from_be_bytes(
                                            child_evm.message.current_target))]
    IN [e2 EXCEPT !.gas_left = child_evm.gas_left]

\* CREATE from the return of process_create_message on
CreateReturn ==
    /\ Blocked("CREATE")
    /\ LET r == process_create_message(Top, state, pending[Len(pending)].snapshot)
       IN Resume(create_merge(frames[Len(frames) - 1], r.evm), r.evm, r.state)

\* return_halt with all of memory as the output
return_halt_whole_memory(evm, memory_start_position, memory_size) ==
    [evm EXCEPT !.output = evm.memory, !.running = FALSE]

\* evm.output = memory_read_bytes(...); evm.running = False
return_halt(evm, memory_start_position, memory_size) ==
    [evm EXCEPT
        !.output = memory_read_bytes(evm, memory_start_position, memory_size),
        !.running = FALSE]

\* ---------------------------------------------------------------- RETURN
Return ==
    /\ Top.running
    /\ \E evm0 \in Entry("RETURN") :
       IF Len(evm0.stack) < 2
       THEN Finish(evm0, Raise([evm0 EXCEPT !.stack = <<>>]), state, "RETURN", "error")
       ELSE
       LET memory_start_position == evm0.stack[1]
           memory_size == evm0.stack[2]
           evm1 == [evm0 EXCEPT !.stack = PopN(@, 2)]
           g == subtract_gas(evm1, GAS_ZERO)
           t == touch_memory(g.evm, memory_start_position, memory_size)
       IN
       IF g.raised THEN Finish(evm0, Raise(g.evm), state, "RETURN", "error")
       ELSE IF t.raised THEN Finish(evm0, Raise(t.evm), state, "RETURN", "error")
       ELSE Finish(evm0, return_halt(t.evm, memory_start_position, memory_size),
                   state, "RETURN", "halt")

\* ------------------------------------------------------------------ CALL
\* call_guard with the depth test off by one
call_guard_off_by_one(evm, sender_balance, value) ==
    \/ sender_balance < value
    \/ evm.message.depth + 1 >= STACK_DEPTH_LIMIT

\* the guards of CALL: the balance shortfall and the depth ceiling
call_guard(evm, sender_balance, value) ==
    \/ sender_balance < value
    \/ evm.message.depth + 1 > STACK_DEPTH_LIMIT

\* call_reject that credits the value surcharge along with the message's gas
call_reject_credit_surcharge(evm, message_call_gas_fee) ==
    [evm EXCEPT !.stack = push(@, 0),
                !.gas_left = @ + message_call_gas_fee + GAS_CALL_VALUE]

\* a rejected CALL: push 0 and credit the message's gas back
call_reject(evm, message_call_gas_fee) ==
    [evm EXCEPT !.stack = push(@, 0), !.gas_left = @ + message_call_gas_fee]

\* the child's message
call_message(evm, to, code_address, message_call_gas_fee, value, call_data, code) ==
    Message(evm.message.current_target, to, message_call_gas_fee, value,
            call_data, code, to, evm.message.depth + 1, code_address)

\* CALL up to its call of process_message
Call ==
    /\ Top.running
    /\ \E evm0 \in Entry("CALL") :
       IF Len(evm0.stack) < 7
       THEN Finish(evm0, Raise([evm0 EXCEPT !.stack = <<>>]), state, "CALL", "error")
       ELSE
       LET gas == evm0.stack[1]
           to == to_address(evm0.stack[2])
           value == evm0.stack[3]
           memory_input_start_position == evm0.stack[4]
           memory_input_size == evm0.stack[5]
           memory_output_start_position == evm0.stack[6]
           memory_output_size == evm0.stack[7]
           evm1 == [evm0 EXCEPT !.stack = PopN(@, 7)]
           t1 == touch_memory(evm1, memory_input_start_position, memory_input_size)
           t2 == touch_memory(t1.evm, memory_output_start_position, memory_output_size)
           call_data == memory_read_bytes(t2.evm, memory_input_start_position,
                                          memory_input_size)
           call_gas_fee == calculate_call_gas_cost(state, gas, to, value)
           message_call_gas_fee == gas + calculate_message_call_gas_stipend(value)
           g == subtract_gas(t2.evm, call_gas_fee)
           sender_balance == get_account(state, evm0.message.current_target).balance
           evm2 == [g.evm EXCEPT !.pc = @ + 1]
           code == get_account(state, to).code
       IN
       IF t1.raised THEN Finish(evm0, Raise(t1.evm), state, "CALL", "error")
       ELSE IF t2.raised THEN Finish(evm0, Raise(t2.evm), state, "CALL", "error")
       ELSE IF u256_add_overflows(call_gas_fee, 0)
               \/ u256_add_overflows(gas, calculate_message_call_gas_stipend(value))
       THEN Finish(evm0, Raise(t2.evm), state, "CALL", "error")
       ELSE IF g.raised THEN Finish(evm0, Raise(g.evm), state, "CALL", "error")
       ELSE IF call_guard(evm2, sender_balance, value)
       THEN Finish(evm0, call_reject(evm2, message_call_gas_fee), state,
                   "CALL", "rejected")
       ELSE Descend(evm0, evm2, state,
                    call_message(evm2, to, to, message_call_gas_fee, value,
                                 call_data, code),
                    "CALL", memory_output_start_position, memory_output_size)

\* call_merge that does not take the child's gas back
call_merge_no_gas_return(evm, child_evm, memory_output_start_position, memory_output_size) ==
    LET e1 == [evm EXCEPT !.children = Append(@, [child_evm EXCEPT !.gas_left = 0])]
        e2 == IF child_evm.has_erred
              THEN [e1 EXCEPT !.stack = push(@, 0)]
              ELSE [e1 EXCEPT !.logs = @ \o child_evm.logs, !.stack = push(@, 1)]
        actual_output_size == Min(memory_output_size, Len(child_evm.output))
    IN memory_write(e2, memory_output_start_position,
                    SubSeq(child_evm.output, 1, actual_output_size))

\* call_merge that also takes the accounts_to_delete of a child that did not err
call_merge_inherit_deletes(evm, child_evm, memory_output_start_position, memory_output_size) ==
    LET e1 == [evm EXCEPT !.children = Append(@, [child_evm EXCEPT !.gas_left = 0])]
        e2 == IF child_evm.has_erred
              THEN [e1 EXCEPT !.stack = push(@, 0)]
              ELSE [e1 EXCEPT !.logs = @ \o child_evm.logs, !.stack = push(@, 1),
                              !.accounts_to_delete = @ \cup child_evm.accounts_to_delete]
        actual_output_size == Min(memory_output_size, Len(child_evm.output))
        e3 == memory_write(e2, memory_output_start_position,
                           SubSeq(child_evm.output, 1, actual_output_size))
    IN [e3 EXCEPT !.gas_left = @ + child_evm.gas_left]

\* call_merge that leaves the child its gas after the credit
call_merge_keep_child_gas(evm, child_evm, memory_output_start_position, memory_output_size) ==
    LET e1 == [evm EXCEPT !.children = Append(@, child_evm)]
        e2 == IF child_evm.has_erred
              THEN [e1 EXCEPT !.stack = push(@, 0)]
              ELSE [e1 EXCEPT !.logs = @ \o child_evm.logs, !.stack = push(@, 1)]
        actual_output_size == Min(memory_output_size, Len(child_evm.output))
        e3 == memory_write(e2, memory_output_start_position,
                           SubSeq(child_evm.output, 1, actual_output_size))
    IN [e3 EXCEPT !.gas_left = @ + child_evm.gas_left]

\* CALL once process_message has returned child_evm: the frame `evm` after
call_merge(evm, child_evm, memory_output_start_position, memory_output_size) ==
    LET e1 == [evm EXCEPT !.children = Append(@, [child_evm EXCEPT !.gas_left = 0])]
        e2 == IF child_evm.has_erred
              THEN [e1 EXCEPT !.stack = push(@, 0)]
              ELSE [e1 EXCEPT !.logs = @ \o child_evm.logs, !.stack = push(@, 1)]
        actual_output_size == Min(memory_output_size, Len(child_evm.output))
        e3 == memory_write(e2, memory_output_start_position,
                           SubSeq(child_evm.output, 1, actual_output_size))
    IN [e3 EXCEPT !.gas_left = @ + child_evm.gas_left]

\* CALL from the return of process_message on
CallReturn ==
    /\ Blocked("CALL")
    /\ LET p == pending[Len(pending)]
           r == process_message(Top, state, p.snapshot)
       IN Resume(call_merge(frames[Len(frames) - 1], r.evm,
                            p.memory_output_start_position, p.memory_output_size),
                 r.evm, r.state)

\* -------------------------------------------------------------- CALLCODE
\* the guards of CALLCODE: the balance shortfall and the depth ceiling
callcode_guard(evm, sender_balance, value) ==
    \/ sender_balance < value
    \/ evm.message.depth + 1 > STACK_DEPTH_LIMIT

\* callcode_reject without the credit
callcode_reject_no_refund(evm, message_call_gas_fee) ==
    [evm EXCEPT !.stack = push(@, 0)]

\* a rejected CALLCODE: push 0 and credit the message's gas back
callcode_reject(evm, message_call_gas_fee) ==
    [evm EXCEPT !.stack = push(@, 0), !.gas_left = @ + message_call_gas_fee]

\* callcode_message with the code's address as the account that executes
callcode_message_as_call(evm, to, code_address, message_call_gas_fee, value, call_data, code) ==
    Message(evm.message.current_target, code_address, message_call_gas_fee, value,
            call_data, code, code_address, evm.message.depth + 1, code_address)

\* the child's message
callcode_message(evm, to, code_address, message_call_gas_fee, value, call_data, code) ==
    Message(evm.message.current_target, to, message_call_gas_fee, value,
            call_data, code, to, evm.message.depth + 1, code_address)

\* CALLCODE up to its call of process_message
Callcode ==
    /\ Top.running
    /\ \E evm0 \in Entry("CALLCODE") :
       IF Len(evm0.stack) < 7
       THEN Finish(evm0, Raise([evm0 EXCEPT !.stack = <<>>]), state, "CALLCODE", "error")
       ELSE
       LET gas == evm0.stack[1]
           code_address == to_address(evm0.stack[2])
           value == evm0.stack[3]
           memory_input_start_position == evm0.stack[4]
           memory_input_size == evm0.stack[5]
           memory_output_start_position == evm0.stack[6]
           memory_output_size == evm0.stack[7]
           to == evm0.message.current_target
           evm1 == [evm0 EXCEPT !.stack = PopN(@, 7)]
           t1 == touch_memory(evm1, memory_input_start_position, memory_input_size)
           t2 == touch_memory(t1.evm, memory_output_start_position, memory_output_size)
           call_data == memory_read_bytes(t2.evm, memory_input_start_position,
                                          memory_input_size)
           call_gas_fee == calculate_call_gas_cost(state, gas, to, value)
           message_call_gas_fee == gas + calculate_message_call_gas_stipend(value)
           g == subtract_gas(t2.evm, call_gas_fee)
           sender_balance == get_account(state, evm0.message.current_target).balance
           evm2 == [g.evm EXCEPT !.pc = @ + 1]
           code == get_account(state, code_address).code
       IN
       IF t1.raised THEN Finish(evm0, Raise(t1.evm), state, "CALLCODE", "error")
       ELSE IF t2.raised THEN Finish(evm0, Raise(t2.evm), state, "CALLCODE", "error")
       ELSE IF u256_add_overflows(call_gas_fee, 0)
               \/ u256_add_overflows(gas, calculate_message_call_gas_stipend(value))
       THEN Finish(evm0, Raise(t2.evm), state, "CALLCODE", "error")
       ELSE IF g.raised THEN Finish(evm0, Raise(g.evm), state, "CALLCODE", "error")
       ELSE IF callcode_guard(evm2, sender_balance, value)
       THEN Finish(evm0, callcode_reject(evm2, message_call_gas_fee), state,
                   "CALLCODE", "rejected")
       ELSE Descend(evm0, evm2, state,
                    callcode_message(evm2, to, code_address, message_call_gas_fee, value,
                                 call_data, code),
                    "CALLCODE", memory_output_start_position, memory_output_size)

\* callcode_merge that pushes 1 whether or not the child erred
callcode_merge_push_one(evm, child_evm, memory_output_start_position, memory_output_size) ==
    LET e1 == [evm EXCEPT !.children = Append(@, [child_evm EXCEPT !.gas_left = 0])]
        e2 == IF child_evm.has_erred
              THEN [e1 EXCEPT !.stack = push(@, 1)]
              ELSE [e1 EXCEPT !.logs = @ \o child_evm.logs, !.stack = push(@, 1)]
        actual_output_size == Min(memory_output_size, Len(child_evm.output))
        e3 == memory_write(e2, memory_output_start_position,
                           SubSeq(child_evm.output, 1, actual_output_size))
    IN [e3 EXCEPT !.gas_left = @ + child_evm.gas_left]

\* callcode_merge that appends the output to memory
callcode_merge_append(evm, child_evm, memory_output_start_position, memory_output_size) ==
    LET e1 == [evm EXCEPT !.children = Append(@, [child_evm EXCEPT !.gas_left = 0])]
        e2 == IF child_evm.has_erred
              THEN [e1 EXCEPT !.stack = push(@, 0)]
              ELSE [e1 EXCEPT !.logs = @ \o child_evm.logs, !.stack = push(@, 1)]
        actual_output_size == Min(memory_output_size, Len(child_evm.output))
        e3 == [e2 EXCEPT !.memory = @ \o SubSeq(child_evm.output, 1, actual_output_size)]
    IN [e3 EXCEPT !.gas_left = @ + child_evm.gas_left]

\* CALLCODE once process_message has returned child_evm: the frame `evm` after
callcode_merge(evm, child_evm, memory_output_start_position, memory_output_size) ==
    LET e1 == [evm EXCEPT !.children = Append(@, [child_evm EXCEPT !.gas_left = 0])]
        e2 == IF child_evm.has_erred
              THEN [e1 EXCEPT !.stack = push(@, 0)]
              ELSE [e1 EXCEPT !.logs = @ \o child_evm.logs, !.stack = push(@, 1)]
        actual_output_size == Min(memory_output_size, Len(child_evm.output))
        e3 == memory_write(e2, memory_output_start_position,
                           SubSeq(child_evm.output, 1, actual_output_size))
    IN [e3 EXCEPT !.gas_left = @ + child_evm.gas_left]

\* CALLCODE from the return of process_message on
CallcodeReturn ==
    /\ Blocked("CALLCODE")
    /\ LET p == pending[Len(pending)]
           r == process_message(Top, state, p.snapshot)
       IN Resume(callcode_merge(frames[Len(frames) - 1], r.evm,
                            p.memory_output_start_position, p.memory_output_size),
                 r.evm, r.state)

\* ---------------------------------------------------------- SELFDESTRUCT
\* selfdestruct_transfer that zeroes the originator before it pays the beneficiary
selfdestruct_transfer_zero_first(st, beneficiary, originator) ==
    LET beneficiary_balance == get_account(st, beneficiary).balance
        originator_balance == get_account(st, originator).balance
        st1 == set_account_balance(st, originator, 0)
    IN set_account_balance(st1, beneficiary, beneficiary_balance + originator_balance)

\* the balances after SELFDESTRUCT: pay the beneficiary, then zero the originator
selfdestruct_transfer(st, beneficiary, originator) ==
    LET beneficiary_balance == get_account(st, beneficiary).balance
        originator_balance == get_account(st, originator).balance
        st1 == set_account_balance(st, beneficiary,
                                   beneficiary_balance + originator_balance)
    IN set_account_balance(st1, originator, 0)

Selfdestruct ==
    /\ Top.running
    /\ \E evm0 \in Entry("SELFDESTRUCT") :
       IF Len(evm0.stack) < 1
       THEN Finish(evm0, Raise(evm0), state, "SELFDESTRUCT", "error")
       ELSE
       LET beneficiary == to_address(evm0.stack[1])
           originator == evm0.message.current_target
       IN Finish(evm0,
                 [evm0 EXCEPT !.stack = PopN(@, 1),
                              !.accounts_to_delete = @ \cup {originator},
                              !.running = FALSE],
                 selfdestruct_transfer(state, beneficiary, originator),
                 "SELFDESTRUCT", "halt")

\* =================================================== environment instructions
\* evm.env: the transaction's originator and gas price
env == [origin |-> 0, gas_price |-> 7]

\* evm.code, set from the message when the frame is built
code_of(evm) == evm.message.code

\* value.ljust(size, b"\x00")
ljust(value, size) ==
    IF Len(value) >= size THEN value ELSE value \o Zeros(size - Len(value))

RECURSIVE strip_leading_zeros(_)
strip_leading_zeros(bytes) ==
    IF bytes # <<>> /\ bytes[1] = 0 THEN strip_leading_zeros(Tail(bytes)) ELSE bytes

\* U256.from_be_bytes of a byte string: the number, as its big-endian
\* numeral without leading zeros (a 256-bit number does not fit an integer)
U256_from_be_bytes(bytes) == strip_leading_zeros(bytes)

\* U256.to_be_bytes32: the numeral left-padded with zeros to 32 bytes
to_be_bytes32(numeral) == Zeros(32 - Len(numeral)) \o numeral

\* u256_safe_multiply raises when the product leaves U256
u256_multiply_overflows(a, b) == a * b >= U256_CEIL

\* what a handler leaves: how it ended, the frame and the world state
Out(outcome, evm, st) == [outcome |-> outcome, evm |-> evm, state |-> st]

OutOfGas(evm, st) == Out("OutOfGasError", Raise(evm), st)

\* pop from a stack that runs out: what was there has been popped
StackUnderflow(evm, st) == Out("StackUnderflowError", Raise([evm EXCEPT !.stack = <<>>]), st)

\* subtract_gas(evm, cost); push(evm.stack, w); evm.pc += 1
charge_and_push(evm, st, cost, w) ==
    LET g == subtract_gas(evm, cost)
    IN IF g.raised THEN OutOfGas(g.evm, st)
       ELSE Out("done", [g.evm EXCEPT !.stack = push(@, w), !.pc = @ + 1], st)

address(evm, st) ==
    charge_and_push(evm, st, GAS_BASE, from_be_bytes(evm.message.current_target))

\* balance with the pop ahead of the charge
balance_pop_first(evm, st) ==
    IF evm.stack = <<>> THEN StackUnderflow(evm, st)
    ELSE LET g == subtract_gas([evm EXCEPT !.stack = PopN(@, 1)], GAS_BALANCE)
         IN IF g.raised THEN OutOfGas(g.evm, st)
            ELSE Out("done",
                     [g.evm EXCEPT
                         !.stack = push(@, get_account(st, to_address(evm.stack[1])).balance),
                         !.pc = @ + 1],
                     st)

\* balance that reads the account at the whole word
balance_whole_word(evm, st) ==
    LET g == subtract_gas(evm, GAS_BALANCE)
    IN IF g.raised THEN OutOfGas(g.evm, st)
       ELSE IF g.evm.stack = <<>> THEN StackUnderflow(g.evm, st)
       ELSE Out("done",
                [g.evm EXCEPT
                    !.stack = push(PopN(@, 1),
                                   IF g.evm.stack[1] \in Address
                                   THEN get_account(st, g.evm.stack[1]).balance
                                   ELSE 0),
                    !.pc = @ + 1],
                st)

balance(evm, st) ==
    LET g == subtract_gas(evm, GAS_BALANCE)
    IN IF g.raised THEN OutOfGas(g.evm, st)
       ELSE IF g.evm.stack = <<>> THEN StackUnderflow(g.evm, st)
       ELSE Out("done",
                [g.evm EXCEPT
                    !.stack = push(PopN(@, 1),
                                   get_account(st, to_address(g.evm.stack[1])).balance),
                    !.pc = @ + 1],
                st)

origin(evm, st) ==
    charge_and_push(evm, st, GAS_BASE, from_be_bytes(env.origin))

caller(evm, st) ==
    charge_and_push(evm, st, GAS_BASE, from_be_bytes(evm.message.caller))

callvalue(evm, st) ==
    charge_and_push(evm, st, GAS_BASE, evm.message.value)

calldataload(evm, st) ==
    LET g == subtract_gas(evm, GAS_VERY_LOW)
    IN IF g.raised THEN OutOfGas(g.evm, st)
       ELSE IF g.evm.stack = <<>> THEN StackUnderflow(g.evm, st)
       ELSE LET start_index == g.evm.stack[1]
                value == ljust(Slice(evm.message.data, start_index, start_index + 32), 32)
            IN Out("done",
                   [g.evm EXCEPT !.stack = push(PopN(@, 1), U256_from_be_bytes(value)),
                                 !.pc = @ + 1],
                   st)

calldatasize(evm, st) ==
    charge_and_push(evm, st, GAS_BASE, Len(evm.message.data))

codesize(evm, st) ==
    charge_and_push(evm, st, GAS_BASE, Len(code_of(evm)))

gasprice(evm, st) ==
    charge_and_push(evm, st, GAS_BASE, env.gas_price)

\* extcodesize with the whole popped word as the address
extcodesize_whole_word(evm, st) ==
    LET g == subtract_gas(evm, GAS_EXTERNAL)
    IN IF g.raised THEN OutOfGas(g.evm, st)
       ELSE IF g.evm.stack = <<>> THEN StackUnderflow(g.evm, st)
       ELSE Out("done",
                [g.evm EXCEPT
                    !.stack = push(PopN(@, 1),
                                   IF g.evm.stack[1] \in Address
                                   THEN Len(get_account(st, g.evm.stack[1]).code)
                                   ELSE 0),
                    !.pc = @ + 1],
                st)

extcodesize(evm, st) ==
    LET g == subtract_gas(evm, GAS_EXTERNAL)
    IN IF g.raised THEN OutOfGas(g.evm, st)
       ELSE IF g.evm.stack = <<>> THEN StackUnderflow(g.evm, st)
       ELSE Out("done",
                [g.evm EXCEPT
                    !.stack = push(PopN(@, 1),
                                   Len(get_account(st, to_address(g.evm.stack[1])).code)),
                    !.pc = @ + 1],
                st)

\* the gas of a copy: base + GAS_COPY * words, each step overflow-checked
copy_gas(base, size) ==
    LET words == ceil32(size) \div 32
        copy_gas_cost == GAS_COPY * words
    IN [raised |-> u256_multiply_overflows(GAS_COPY, words)
                     \/ u256_add_overflows(base, copy_gas_cost),
        total_gas_cost |-> base + copy_gas_cost]

\* copy_into_memory that copies the source as it is, without the padding
copy_into_memory_unpadded(evm, st, base, memory_start_index, start_index, size, source) ==
    LET c == copy_gas(base, size)
        g == subtract_gas(evm, c.total_gas_cost)
        t == touch_memory(g.evm, memory_start_index, size)
        evm1 == [t.evm EXCEPT !.pc = @ + 1]
    IN IF c.raised THEN OutOfGas(evm, st)
       ELSE IF g.raised THEN OutOfGas(g.evm, st)
       ELSE IF t.raised THEN OutOfGas(t.evm, st)
       ELSE IF size = 0 THEN Out("done", evm1, st)
       ELSE Out("done",
                memory_write(evm1, memory_start_index,
                             Slice(source, start_index, start_index + size)),
                st)

\* copy_into_memory that charges the copy for whole kilobytes only
copy_into_memory_cheap(evm, st, base, memory_start_index, start_index, size, source) ==
    LET g == subtract_gas(evm, base + GAS_COPY * (size \div 32))
        t == touch_memory(g.evm, memory_start_index, size)
        evm1 == [t.evm EXCEPT !.pc = @ + 1]
    IN IF g.raised THEN OutOfGas(g.evm, st)
       ELSE IF t.raised THEN OutOfGas(t.evm, st)
       ELSE IF size = 0 THEN Out("done", evm1, st)
       ELSE Out("done",
                memory_write(evm1, memory_start_index,
                             ljust(Slice(source, start_index, start_index + size), size)),
                st)

\* the copy opcodes once their operands are popped: gas, touch, pc, write
copy_into_memory(evm, st, base, memory_start_index, start_index, size, source) ==
    LET c == copy_gas(base, size)
        g == subtract_gas(evm, c.total_gas_cost)
        t == touch_memory(g.evm, memory_start_index, size)
        evm1 == [t.evm EXCEPT !.pc = @ + 1]
    IN IF c.raised THEN OutOfGas(evm, st)
       ELSE IF g.raised THEN OutOfGas(g.evm, st)
       ELSE IF t.raised THEN OutOfGas(t.evm, st)
       ELSE IF size = 0 THEN Out("done", evm1, st)
       ELSE Out("done",
                memory_write(evm1, memory_start_index,
                             ljust(Slice(source, start_index, start_index + size), size)),
                st)

calldatacopy(evm, st) ==
    IF Len(evm.stack) < 3 THEN StackUnderflow(evm, st)
    ELSE copy_into_memory([evm EXCEPT !.stack = PopN(@, 3)], st, GAS_VERY_LOW,
                          evm.stack[1], evm.stack[2], evm.stack[3], evm.message.data)

codecopy(evm, st) ==
    IF Len(evm.stack) < 3 THEN StackUnderflow(evm, st)
    ELSE copy_into_memory([evm EXCEPT !.stack = PopN(@, 3)], st, GAS_VERY_LOW,
                          evm.stack[1], evm.stack[2], evm.stack[3], code_of(evm))

extcodecopy(evm, st) ==
    IF Len(evm.stack) < 4 THEN StackUnderflow(evm, st)
    ELSE copy_into_memory([evm EXCEPT !.stack = PopN(@, 4)], st, GAS_EXTERNAL,
                          evm.stack[2], evm.stack[3], evm.stack[4],
                          get_account(st, to_address(evm.stack[1])).code)

\* Operands as the PUSH/DUP instructions before the opcode leave them.
\*   BALANCE, EXTCODESIZE: address      CALLDATALOAD: start_index
\*   CALLDATACOPY, CODECOPY: memory_start_index, start_index, size
\*   EXTCODECOPY: address, memory_start_index, code_start_index, size
EnvOperands(op) ==
    CASE op \in {"BALANCE", "EXTCODESIZE"} ->
            { <<3>>, <<2 + 5 * ADDRESS_SPACE>>, <<1>> }
      [] op = "CALLDATALOAD" -> { <<0>>, <<1>>, <<40>>, <<U256_CEIL - 1>> }
      [] op = "CALLDATACOPY" ->
            { <<5, 99, 0>>, <<0, 0, 32>>, <<3, 1, 32>>, <<U256_CEIL - 1, 0, 0>>,
              <<1, U256_CEIL - 1, 2>>, <<0, 0, U256_CEIL - 1>> }
      [] op = "CODECOPY" -> { <<0, 0, 1>>, <<2, 0, 33>>, <<40, 7, 0>> }
      [] op = "EXTCODECOPY" -> { <<2, 1, 1, 3>>, <<3, 0, 0, 2>>, <<2, 70, 0, 0>> }
      [] OTHER -> { <<>> }

EnvArity(op) ==
    CASE op \in {"BALANCE", "EXTCODESIZE", "CALLDATALOAD"} -> 1
      [] op \in {"CALLDATACOPY", "CODECOPY"} -> 3
      [] op = "EXTCODECOPY" -> 4
      [] OTHER -> 0

\* the frames an environment instruction can start from
EnvEntry(op) ==
    { [Top EXCEPT !.stack = v \o @] : v \in EnvOperands(op) }
        \cup (IF Len(Top.stack) < EnvArity(op) THEN {Top} ELSE {})

\* an environment instruction executed by the interpreter
Execute(op, evm0, r) == Finish(evm0, r.evm, r.state, op, r.outcome)

OpAddress ==
    Top.running /\ \E evm0 \in EnvEntry("ADDRESS") :
        Execute("ADDRESS", evm0, address(evm0, state))

OpBalance ==
    Top.running /\ \E evm0 \in EnvEntry("BALANCE") :
        Execute("BALANCE", evm0, balance(evm0, state))

OpOrigin ==
    Top.running /\ \E evm0 \in EnvEntry("ORIGIN") :
        Execute("ORIGIN", evm0, origin(evm0, state))

OpCaller ==
    Top.running /\ \E evm0 \in EnvEntry("CALLER") :
        Execute("CALLER", evm0, caller(evm0, state))

OpCallvalue ==
    Top.running /\ \E evm0 \in EnvEntry("CALLVALUE") :
        Execute("CALLVALUE", evm0, callvalue(evm0, state))

OpCalldataload ==
    Top.running /\ \E evm0 \in EnvEntry("CALLDATALOAD") :
        Execute("CALLDATALOAD", evm0, calldataload(evm0, state))

OpCalldatasize ==
    Top.running /\ \E evm0 \in EnvEntry("CALLDATASIZE") :
        Execute("CALLDATASIZE", evm0, calldatasize(evm0, state))

OpCalldatacopy ==
    Top.running /\ \E evm0 \in EnvEntry("CALLDATACOPY") :
        Execute("CALLDATACOPY", evm0, calldatacopy(evm0, state))

OpCodesize ==
    Top.running /\ \E evm0 \in EnvEntry("CODESIZE") :
        Execute("CODESIZE", evm0, codesize(evm0, state))

OpCodecopy ==
    Top.running /\ \E evm0 \in EnvEntry("CODECOPY") :
        Execute("CODECOPY", evm0, codecopy(evm0, state))

OpGasprice ==
    Top.running /\ \E evm0 \in EnvEntry("GASPRICE") :
        Execute("GASPRICE", evm0, gasprice(evm0, state))

OpExtcodesize ==
    Top.running /\ \E evm0 \in EnvEntry("EXTCODESIZE") :
        Execute("EXTCODESIZE", evm0, extcodesize(evm0, state))

OpExtcodecopy ==
    Top.running /\ \E evm0 \in EnvEntry("EXTCODECOPY") :
        Execute("EXTCODECOPY", evm0, extcodecopy(evm0, state))

\* ------------------------------------------------------------------- Next
Next ==
    \/ Log
    \/ Create
    \/ CreateReturn
    \/ Return
    \/ Call
    \/ CallReturn
    \/ Callcode
    \/ CallcodeReturn
    \/ Selfdestruct

Spec == Init /\ [][Next]_vars

\* ---------------------------------------------- all instructions together
\* a top-level frame with calldata: <<gas>>
EnvGas == { 100000, 25, 1 }

InitEnv ==
    \E gas \in EnvGas :
        /\ frames = <<Evm(Message(0, 1, gas, 0, <<170, 187, 204>>, <<7>>, 1, 0, 1))>>
        /\ pending = <<>>
        /\ state = InitState(0)
        /\ steps = 0
        /\ last = Event("none", "init", NoEvm, InitState(0), NoEvm)
        /\ history = <<>>

NextEnv ==
    \/ OpAddress
    \/ OpBalance
    \/ OpOrigin
    \/ OpCaller
    \/ OpCallvalue
    \/ OpCalldataload
    \/ OpCalldatasize
    \/ OpCalldatacopy
    \/ OpCodesize
    \/ OpCodecopy
    \/ OpGasprice
    \/ OpExtcodesize
    \/ OpExtcodecopy
    \/ Next

SpecEnv == InitEnv /\ [][NextEnv]_vars

\* ------------------------------------------------- inside a CALLCODE child
\* The top-level frame has executed CALLCODE(gas, code_address, 0, 0, 0, 0, 0)
\* and its child, which runs as the same account, is about to start.
\*   gas, code_address, value, in_start, in_size, out_start, out_size
InnerOperands == <<40000, 1, 0, 0, 0, 0, 0>>

\* the nonce of the executing account
InnerNonces == { 0, 1, NONCE_CEIL - 1 }

InitInner ==
    \E n \in InnerNonces :
        LET evm0 == [Evm(Message(0, 1, 100000, 0, <<>>, <<7>>, 1, 0, 1))
                        EXCEPT !.stack = InnerOperands]
            gas == InnerOperands[1]
            code_address == to_address(InnerOperands[2])
            value == InnerOperands[3]
            to == evm0.message.current_target
            call_gas_fee == calculate_call_gas_cost(InitState(n), gas, to, value)
            message_call_gas_fee == gas + calculate_message_call_gas_stipend(value)
            g == subtract_gas([evm0 EXCEPT !.stack = PopN(@, 7)], call_gas_fee)
            evm2 == [g.evm EXCEPT !.pc = @ + 1]
            code == get_account(InitState(n), code_address).code
        IN /\ frames = <<evm2,
                         Evm(callcode_message(evm2, to, code_address,
                                              message_call_gas_fee, value, <<>>, code))>>
           /\ pending = <<[op |-> "CALLCODE",
                           memory_output_start_position |-> InnerOperands[6],
                           memory_output_size |-> InnerOperands[7],
                           snapshot |-> InitState(n),
                           pre |-> evm0,
                           prestate |-> InitState(n)]>>
           /\ state = InitState(n)
           /\ steps = 0
           /\ last = Event("CALLCODE", "descend", evm0, InitState(n), NoEvm)
           /\ history = <<>>

SpecInner == InitInner /\ [][Next]_vars

\* ============================================================ properties
\* `last` records the instruction that was just executed: the frame it
\* started from with its operands on the stack (last.pre), the world state
\* it saw (last.prestate) and, once a child has returned, that child
\* (last.child).  After "rejected", "collision" and "returned" the frame of
\* the instruction is the top frame; after "descend" it is the one below.

SubCall == last.op \in {"CALL", "CALLCODE"}

Performed == last.outcome \in {"rejected", "collision", "descend", "returned"}

\* CALL / CALLCODE operands and fees, as the handler computes them
CallGas == last.pre.stack[1]

CallValue == last.pre.stack[3]

CallTo ==
    IF last.op = "CALL" THEN to_address(last.pre.stack[2])
    ELSE last.pre.message.current_target

CallTouched ==
    touch_memory(
        touch_memory([last.pre EXCEPT !.stack = PopN(@, 7)],
                     last.pre.stack[4], last.pre.stack[5]).evm,
        last.pre.stack[6], last.pre.stack[7]).evm

CallMemoryFee == last.pre.gas_left - CallTouched.gas_left

CallGasFee == calculate_call_gas_cost(last.prestate, CallGas, CallTo, CallValue)

CallStipend == calculate_message_call_gas_stipend(CallValue)

CallSenderBalance ==
    get_account(last.prestate, last.pre.message.current_target).balance

CallShouldReject ==
    \/ CallSenderBalance < CallValue
    \/ last.pre.message.depth + 1 > STACK_DEPTH_LIMIT

\* CREATE operands and fees of a frame evm0 with the operands on its stack
CreateMemoryFee(evm0) ==
    LET g == subtract_gas([evm0 EXCEPT !.stack = PopN(@, 3)], GAS_CREATE).evm
    IN g.gas_left - touch_memory(g, evm0.stack[2], evm0.stack[3]).evm.gas_left

CreateSender == get_account(last.prestate, last.pre.message.current_target)

CreateEndowment == last.pre.stack[1]

CreateShouldReject ==
    \/ CreateSender.balance < CreateEndowment
    \/ CreateSender.nonce = NONCE_CEIL
    \/ last.pre.message.depth + 1 > STACK_DEPTH_LIMIT

CreateAddress ==
    compute_contract_address(last.pre.message.current_target, CreateSender.nonce)

CreateNonceBumped == increment_nonce(last.prestate, last.pre.message.current_target)

\* ------------------------------------------------------------------- C1
\* C1 as stated: a CALL executed at depth 1023 that does not raise is
\* rejected: it pushes 0, runs no child and gets gas + stipend back.
C1_RejectedAtDepth1023 ==
    (last.op = "CALL" /\ Performed
        /\ last.pre.message.depth = STACK_DEPTH_LIMIT - 1)
    => /\ last.outcome = "rejected"
       /\ Top.stack = push(PopN(last.pre.stack, 7), 0)
       /\ Top.children = last.pre.children
       /\ Top.gas_left = CallTouched.gas_left - CallGasFee + CallGas + CallStipend

\* C1 amended: a CALL executed at depth 1024 (depth + 1 > 1024) that does not
\* raise pushes 0, runs no child (children unchanged) and gets
\* message_call_gas = gas + stipend back; at depth 1023 a CALL is rejected
\* only when the sender's balance is below the value.
C1_RejectedAtDepthLimit ==
    /\ (last.op = "CALL" /\ Performed
           /\ last.pre.message.depth = STACK_DEPTH_LIMIT)
       => /\ last.outcome = "rejected"
          /\ Top.stack = push(PopN(last.pre.stack, 7), 0)
          /\ Top.children = last.pre.children
          /\ Top.gas_left = CallTouched.gas_left - CallGasFee + CallGas + CallStipend
    /\ (last.op = "CALL" /\ last.outcome = "rejected"
           /\ last.pre.message.depth = STACK_DEPTH_LIMIT - 1)
       => CallSenderBalance < CallValue

\* a CALL with value at depth 1024 whose sender could pay: the depth rejects it
C1_Witness ==
    /\ last.op = "CALL"
    /\ last.outcome = "rejected"
    /\ last.pre.message.depth = STACK_DEPTH_LIMIT
    /\ CallValue # 0
    /\ CallSenderBalance >= CallValue
    /\ Top.gas_left = last.pre.gas_left - CallMemoryFee - CallGasFee
                        + CallGas + GAS_CALL_STIPEND

\* ------------------------------------------------------------------- C2
\* C2: every child message has depth = parent depth + 1, no frame has a
\* depth above 1024, and a CALL, CALLCODE or CREATE executed at depth 1024
\* that does not raise is rejected and runs no child.
C2_DepthChain ==
    /\ \A i \in 1 .. Len(frames) :
          /\ frames[i].message.depth <= STACK_DEPTH_LIMIT
          /\ \A k \in 1 .. Len(frames[i].children) :
                frames[i].children[k].message.depth = frames[i].message.depth + 1
    /\ \A i \in 1 .. Len(frames) - 1 :
          frames[i + 1].message.depth = frames[i].message.depth + 1
    /\ (last.op \in {"CALL", "CALLCODE", "CREATE"} /\ Performed
           /\ last.pre.message.depth = STACK_DEPTH_LIMIT)
       => /\ last.outcome = "rejected"
          /\ Top.message = last.pre.message
          /\ Top.children = last.pre.children

\* a child built at depth 1024 whose own CREATE only the depth guard rejects
C2_Witness ==
    /\ Len(frames) = 2
    /\ frames[1].message.depth = STACK_DEPTH_LIMIT - 1
    /\ Top.message.depth = STACK_DEPTH_LIMIT
    /\ last.op = "CREATE"
    /\ last.outcome = "rejected"
    /\ CreateSender.balance >= CreateEndowment
    /\ CreateSender.nonce # NONCE_CEIL

\* ------------------------------------------------------------------- C3
\* C3 as stated: after a CALL or CALLCODE that ran a child, the parent's
\* gas_left plus the gas the child consumed (gas + stipend - the child's
\* final gas_left) equals the parent's gas_left before minus the prelude
\* fees (memory expansion plus the call fee, the forwarded gas aside).
C3_GasConservedStipendPaid ==
    (SubCall /\ last.outcome = "returned")
    => Top.gas_left + (CallGas + CallStipend - last.child.gas_left)
          = last.pre.gas_left - (CallMemoryFee + (CallGasFee - CallGas))

\* C3 amended: the same sum equals the parent's gas_left before minus the
\* prelude fees plus the stipend (2300 when value != 0, else 0): the stipend
\* is added to the child's budget and is never charged to the parent.
C3_GasConservedStipendFree ==
    (SubCall /\ last.outcome = "returned")
    => /\ last.child.message.gas = CallGas + CallStipend
       /\ Top.gas_left + (CallGas + CallStipend - last.child.gas_left)
             = last.pre.gas_left - (CallMemoryFee + (CallGasFee - CallGas))
                 + CallStipend

\* a CALL with value whose child used nothing: gas + 2300 come back
C3_Witness ==
    /\ SubCall
    /\ last.outcome = "returned"
    /\ CallValue # 0
    /\ CallMemoryFee > 0
    /\ ~last.child.has_erred
    /\ last.child.gas_left = CallGas + GAS_CALL_STIPEND

\* ------------------------------------------------------------------- C4
\* C4: a CREATE that passes the guards and finds no collision hands the
\* child all the gas left after GAS_CREATE and the memory expansion; the
\* parent's gas_left is 0 while the child runs; afterwards the parent's
\* gas_left is the child's final gas_left (0 when the child erred), so
\* parent after + consumed by child = parent before - GAS_CREATE - memory.
C4_CreateGasHandOver ==
    /\ \A i \in 1 .. Len(pending) :
          pending[i].op = "CREATE"
          => /\ frames[i].gas_left = 0
             /\ frames[i + 1].message.gas
                   = pending[i].pre.gas_left - GAS_CREATE
                       - CreateMemoryFee(pending[i].pre)
    /\ (last.op = "CREATE" /\ last.outcome = "returned")
       => /\ last.child.message.gas
                = last.pre.gas_left - GAS_CREATE - CreateMemoryFee(last.pre)
          /\ Top.gas_left = last.child.gas_left
          /\ last.child.has_erred => Top.gas_left = 0
          /\ Top.gas_left + (last.child.message.gas - last.child.gas_left)
                = last.pre.gas_left - GAS_CREATE - CreateMemoryFee(last.pre)

\* a CREATE that paid for memory and whose child came back with gas
C4_Witness ==
    /\ last.op = "CREATE"
    /\ last.outcome = "returned"
    /\ CreateMemoryFee(last.pre) > 0
    /\ ~last.child.has_erred
    /\ last.child.gas_left > 0
    /\ last.child.gas_left < last.child.message.gas
    /\ Top.gas_left = last.child.gas_left

\* ------------------------------------------------------------------- C5
\* C5: a CREATE that passes the guards while the account at the computed
\* address has a nonzero nonce or code pushes 0, runs no child (children
\* unchanged), is left with gas_left 0 and leaves the sender's nonce
\* incremented by one; and only then does a guard-passing CREATE run no child.
C5_Collision ==
    /\ (last.op = "CREATE" /\ last.outcome = "collision")
       => /\ ~CreateShouldReject
          /\ account_has_code_or_nonce(CreateNonceBumped, CreateAddress)
          /\ Top.stack = push(PopN(last.pre.stack, 3), 0)
          /\ Top.children = last.pre.children
          /\ Top.running /\ ~Top.has_erred
          /\ Top.gas_left = 0
          /\ state = CreateNonceBumped
    /\ (last.op = "CREATE" /\ last.outcome \in {"descend", "returned"})
       => ~account_has_code_or_nonce(CreateNonceBumped, CreateAddress)

\* a collision that burned gas
C5_Witness ==
    /\ last.op = "CREATE"
    /\ last.outcome = "collision"
    /\ last.pre.gas_left > GAS_CREATE + CreateMemoryFee(last.pre)
    /\ get_account(state, last.pre.message.current_target).nonce
          = CreateSender.nonce + 1

\* ------------------------------------------------------------------- C6
\* C6: a CREATE with sender.balance < endowment, or sender.nonce at its
\* ceiling, or depth + 1 > 1024, that does not raise pushes 0, advances pc
\* by one, runs no child, leaves the world state unchanged and is left with
\* gas_left before - GAS_CREATE - memory expansion.
C6_CreateRejected ==
    /\ (last.op = "CREATE" /\ last.outcome = "rejected")
       => /\ CreateShouldReject
          /\ Top.stack = push(PopN(last.pre.stack, 3), 0)
          /\ Top.pc = last.pre.pc + 1
          /\ Top.children = last.pre.children
          /\ Top.running /\ ~Top.has_erred
          /\ state = last.prestate
          /\ Top.gas_left
                = last.pre.gas_left - GAS_CREATE - CreateMemoryFee(last.pre)
    /\ (last.op = "CREATE" /\ last.outcome \in {"collision", "descend", "returned"})
       => ~CreateShouldReject

\* the nonce ceiling alone rejects a CREATE that paid for memory
C6_Witness ==
    /\ last.op = "CREATE"
    /\ last.outcome = "rejected"
    /\ CreateSender.nonce = NONCE_CEIL
    /\ CreateSender.balance >= CreateEndowment
    /\ last.pre.message.depth + 1 <= STACK_DEPTH_LIMIT
    /\ CreateMemoryFee(last.pre) > 0
    /\ get_account(state, last.pre.message.current_target).nonce = NONCE_CEIL

\* ------------------------------------------------------------------- C7
\* C7: a CALL or CALLCODE with balance < value or depth + 1 > 1024 that does
\* not raise pushes 0, advances pc by one, runs no child (children, logs and
\* world state unchanged, memory only expanded) and is left with the gas
\* after memory expansion and call_gas_fee plus gas plus the stipend.
C7_SubCallRejected ==
    /\ (SubCall /\ last.outcome = "rejected")
       => /\ CallShouldReject
          /\ Top.stack = push(PopN(last.pre.stack, 7), 0)
          /\ Top.pc = last.pre.pc + 1
          /\ Top.children = last.pre.children
          /\ Top.logs = last.pre.logs
          /\ Top.memory = CallTouched.memory
          /\ Top.running /\ ~Top.has_erred
          /\ state = last.prestate
          /\ Top.gas_left
                = (CallTouched.gas_left - CallGasFee) + CallGas
                    + (IF CallValue # 0 THEN GAS_CALL_STIPEND ELSE 0)
    /\ (SubCall /\ last.outcome \in {"descend", "returned"})
       => ~CallShouldReject

\* a CALLCODE with value that the balance rejects
C7_Witness ==
    /\ last.op = "CALLCODE"
    /\ last.outcome = "rejected"
    /\ CallValue # 0
    /\ CallSenderBalance < CallValue
    /\ last.pre.message.depth + 1 <= STACK_DEPTH_LIMIT
    /\ Top.gas_left > last.pre.gas_left - CallMemoryFee - CallGasFee + CallGas

\* ------------------------------------------------------------------- C8
\* C8: after a CALL, CALLCODE or CREATE whose child erred, the child's
\* gas_left is 0 and the parent has pushed one word 0, is running, has not
\* erred, has pc advanced by one and has lost the fees of the instruction
\* and the gas it gave to the child, nothing else; the word pushed is 1
\* (CALL, CALLCODE) or the new address (CREATE) iff a child ran and did not err.
C8_ChildErrorContained ==
    /\ (last.op \in {"CALL", "CALLCODE", "CREATE"} /\ last.outcome = "returned"
           /\ last.child.has_erred)
       => /\ last.child.gas_left = 0
          /\ Top.stack = push(PopN(last.pre.stack, Arity(last.op)), 0)
          /\ Top.running /\ ~Top.has_erred
          /\ Top.pc = last.pre.pc + 1
          /\ last.pre.gas_left - Top.gas_left
                = IF last.op = "CREATE"
                  THEN GAS_CREATE + CreateMemoryFee(last.pre) + last.child.message.gas
                  ELSE CallMemoryFee + (CallGasFee - CallGas) + CallGas
    /\ (last.op \in {"CALL", "CALLCODE", "CREATE"}
           /\ last.outcome \in {"rejected", "collision", "returned"})
       => /\ Top.stack[1] \in {0, IF last.op = "CREATE"
                                  THEN last.child.message.current_target ELSE 1}
          /\ Top.stack[1] # 0
                <=> (last.outcome = "returned" /\ ~last.child.has_erred)

\* a CALLCODE whose child erred after it had been given gas
C8_Witness ==
    /\ last.op = "CALLCODE"
    /\ last.outcome = "returned"
    /\ last.child.has_erred
    /\ last.child.message.gas > 0
    /\ Top.running
    /\ Top.stack[1] = 0
    /\ Top.gas_left > 0

RECURSIVE LogsOfSuccessful(_)
\* the logs of the children that did not err, in the children's order
LogsOfSuccessful(children) ==
    IF children = <<>> THEN <<>>
    ELSE LogsOfSuccessful(SubSeq(children, 1, Len(children) - 1))
            \o (IF children[Len(children)].has_erred THEN <<>>
                ELSE children[Len(children)].logs)

Inherited(evm, entry) == entry.depth > evm.message.depth

\* C10: after a CALL, CALLCODE or CREATE that ran a child, the parent's logs
\* are its previous logs followed by the child's logs when the child did not
\* err, and unchanged when it erred; in every frame the logs that came from
\* children are the logs of the children that did not err, in order.
C10_LogsInOrder ==
    /\ (last.op \in {"CALL", "CALLCODE", "CREATE"} /\ last.outcome = "returned")
       => Top.logs = IF last.child.has_erred THEN last.pre.logs
                     ELSE last.pre.logs \o last.child.logs
    /\ \A i \in 1 .. Len(frames) :
          SelectSeq(frames[i].logs, LAMBDA e : Inherited(frames[i], e))
             = LogsOfSuccessful(frames[i].children)

\* two children with logs, the first erred: only the second's logs are kept
C10_Witness ==
    /\ Len(Top.children) = 2
    /\ Top.children[1].has_erred
    /\ Top.children[1].logs # <<>>
    /\ ~Top.children[2].has_erred
    /\ Top.children[2].logs # <<>>
    /\ Top.logs = Top.children[2].logs

\* ------------------------------------------------------------------ C11
\* the address a blocked CALL or CALLCODE popped as its second operand
EdgeAddress(i) == to_address(pending[i].pre.stack[2])

\* C11: the child message of CALLCODE has target = current_target = caller
\* = the parent's current_target, code_address = the address popped and code
\* = that account's code; the child message of CALL has target =
\* current_target = code_address = the address popped; so current_target is
\* the same on both sides of a CALLCODE edge and changes only across a CALL
\* or CREATE edge.
C11_CallcodeKeepsTarget ==
    /\ \A i \in 1 .. Len(pending) :
          LET parent == frames[i].message
              child == frames[i + 1].message
          IN /\ child.caller = parent.current_target
             /\ pending[i].op = "CALLCODE"
                => /\ child.target = parent.current_target
                   /\ child.current_target = parent.current_target
                   /\ child.code_address = EdgeAddress(i)
                   /\ child.code = get_account(pending[i].prestate, EdgeAddress(i)).code
             /\ pending[i].op = "CALL"
                => /\ child.target = EdgeAddress(i)
                   /\ child.current_target = EdgeAddress(i)
                   /\ child.code_address = EdgeAddress(i)
                   /\ child.code = get_account(pending[i].prestate, EdgeAddress(i)).code
             /\ child.current_target # parent.current_target
                => pending[i].op \in {"CALL", "CREATE"}
    /\ (last.op = "CALLCODE" /\ last.outcome = "returned")
       => /\ last.child.message.current_target = Top.message.current_target
          /\ last.child.message.code_address = to_address(last.pre.stack[2])

\* a CALLCODE child that runs another account's code as the parent's account
C11_Witness ==
    /\ Len(frames) > 1
    /\ pending[Len(pending)].op = "CALLCODE"
    /\ Top.message.code_address # Top.message.current_target
    /\ Top.message.code # <<>>
    /\ Top.message.current_target = frames[Len(frames) - 1].message.current_target

\* ------------------------------------------------------------------ C12
RECURSIVE BalanceUpTo(_, _)
\* the balances of the accounts 0 .. a added up
BalanceUpTo(st, a) ==
    IF a < 0 THEN 0 ELSE st[a].balance + BalanceUpTo(st, a - 1)

TotalBalance(st) == BalanceUpTo(st, ADDRESS_SPACE - 1)

Originator == last.pre.message.current_target

Beneficiary == to_address(last.pre.stack[1])

\* C12: after SELFDESTRUCT the originator (current_target) has balance 0; a
\* beneficiary other than the originator has its previous balance plus the
\* originator's previous balance, the sum of all balances being the same; a
\* beneficiary that is the originator ends with balance 0; the originator is
\* in accounts_to_delete, running is false, gas_left is unchanged and no
\* other account, nonce or code is modified.
C12_Selfdestruct ==
    (last.op = "SELFDESTRUCT" /\ last.outcome = "halt")
    => /\ get_account(state, Originator).balance = 0
       /\ Beneficiary # Originator
          => /\ get_account(state, Beneficiary).balance
                   = get_account(last.prestate, Beneficiary).balance
                       + get_account(last.prestate, Originator).balance
             /\ TotalBalance(state) = TotalBalance(last.prestate)
       /\ Beneficiary = Originator
          => TotalBalance(state)
                = TotalBalance(last.prestate)
                    - get_account(last.prestate, Originator).balance
       /\ Originator \in Top.accounts_to_delete
       /\ ~Top.running
       /\ ~Top.has_erred
       /\ Top.gas_left = last.pre.gas_left
       /\ \A a \in Address :
             /\ a \notin {Originator, Beneficiary} => state[a] = last.prestate[a]
             /\ state[a].nonce = last.prestate[a].nonce
             /\ state[a].code = last.prestate[a].code

\* an account with a balance names itself as the beneficiary
C12_Witness ==
    /\ last.op = "SELFDESTRUCT"
    /\ last.outcome = "halt"
    /\ Beneficiary = Originator
    /\ get_account(last.prestate, Originator).balance > 0
    /\ get_account(state, Originator).balance = 0

\* ============================== properties of the environment instructions
PushOps == {"ADDRESS", "ORIGIN", "CALLER", "CALLVALUE", "CALLDATASIZE",
            "CODESIZE", "GASPRICE"}

PopOps == {"BALANCE", "EXTCODESIZE", "CALLDATALOAD"}

CopyOps == {"CALLDATACOPY", "CODECOPY", "EXTCODECOPY"}

EnvOps == PushOps \cup PopOps \cup CopyOps

\* the gas an environment instruction charges whatever its operands
BaseCost(op) ==
    CASE op \in PushOps -> GAS_BASE
      [] op = "BALANCE" -> GAS_BALANCE
      [] op = "EXTCODESIZE" -> GAS_EXTERNAL
      [] op = "EXTCODECOPY" -> GAS_EXTERNAL
      [] OTHER -> GAS_VERY_LOW

\* the operands of a copy instruction that found them on the stack
CopyDst == last.pre.stack[EnvArity(last.op) - 2]

CopySrc == last.pre.stack[EnvArity(last.op) - 1]

CopySize == last.pre.stack[EnvArity(last.op)]

CopyPopped == PopN(last.pre.stack, EnvArity(last.op))

\* base + GAS_COPY * ceil(size / 32)
CopyCost == BaseCost(last.op) + GAS_COPY * words32(CopySize)

\* ------------------------------------------------------------------ C13
\* C13 as stated: every environment instruction, the copy instructions
\* included, that finds less gas than its cost raises OutOfGas with the
\* stack as it found it, also when the stack is too short.
C13_GasBeforeStack ==
    (last.op \in EnvOps /\ last.pre.gas_left < BaseCost(last.op))
    => /\ last.outcome = "OutOfGasError"
       /\ Top.stack = last.pre.stack

\* C13 amended: ADDRESS .. GASPRICE, BALANCE and EXTCODESIZE charge before
\* they pop: with less gas than the cost they raise OutOfGas with the stack
\* as it was, also when the stack is too short.  CALLDATACOPY, CODECOPY and
\* EXTCODECOPY pop first: with too few items they raise StackUnderflow
\* whatever the gas, and with too little gas they raise OutOfGas with their
\* operands popped.
C13_GasBeforeStackButCopy ==
    /\ (last.op \in PushOps \cup PopOps)
       => /\ last.pre.gas_left < BaseCost(last.op)
             => /\ last.outcome = "OutOfGasError"
                /\ Top.stack = last.pre.stack
          /\ last.outcome = "StackUnderflowError"
             => /\ last.pre.gas_left >= BaseCost(last.op)
                /\ Len(last.pre.stack) < EnvArity(last.op)
    /\ (last.op \in CopyOps)
       => /\ Len(last.pre.stack) < EnvArity(last.op)
             => last.outcome = "StackUnderflowError"
          /\ (Len(last.pre.stack) >= EnvArity(last.op)
                 /\ last.pre.gas_left < CopyCost)
             => /\ last.outcome = "OutOfGasError"
                /\ Top.stack = CopyPopped
    /\ (last.op \in EnvOps /\ last.outcome \in {"OutOfGasError", "StackUnderflowError"})
       => Top.has_erred /\ ~Top.running /\ Top.gas_left = 0

\* BALANCE on an empty stack with less than its 20 gas: OutOfGas
C13_Witness ==
    /\ last.op = "BALANCE"
    /\ last.pre.stack = <<>>
    /\ last.pre.gas_left < GAS_BALANCE
    /\ last.outcome = "OutOfGasError"
    /\ Top.stack = <<>>

\* ------------------------------------------------------------------ C14
\* the bytes a copy instruction reads from
CopySource ==
    CASE last.op = "CALLDATACOPY" -> last.pre.message.data
      [] last.op = "CODECOPY" -> code_of(last.pre)
      [] last.op = "EXTCODECOPY" ->
            get_account(last.prestate, to_address(last.pre.stack[1])).code

\* the frame of a copy instruction after its charge and after its touch
CopyCharged == subtract_gas([last.pre EXCEPT !.stack = CopyPopped], CopyCost)

CopyTouched == touch_memory(CopyCharged.evm, CopyDst, CopySize)

\* byte k of the source, 0 past its end
SourceByte(k) == IF k < Len(CopySource) THEN CopySource[k + 1] ELSE 0

\* byte j of the memory the instruction found, 0 past its end
OldMemoryByte(j) == IF j < Len(last.pre.memory) THEN last.pre.memory[j + 1] ELSE 0

\* the word CALLDATALOAD pushes for start_index i in the frame of `last`
LoadedWord(i) ==
    calldataload([last.pre EXCEPT !.stack = <<i>>, !.gas_left = GAS_VERY_LOW],
                 last.prestate).evm.stack[1]

\* C14: a copy instruction with its operands on the stack ends normally
\* whenever the gas pays for it, however far the source index lies past the
\* source; afterwards memory[dst + k] is source[src + k], or 0 where the
\* source has no such byte, for every k < n, and every other byte of memory
\* is as it was (0 where memory grew).  A CALLDATACOPY of 32 bytes from i
\* stores the bytes of the word CALLDATALOAD pushes for i, which is the 32
\* bytes of calldata from i, right-padded with zeros.
C14_CopySemantics ==
    /\ (last.op \in CopyOps /\ Len(last.pre.stack) >= EnvArity(last.op))
       => /\ last.outcome \in {"done", "OutOfGasError"}
          /\ last.outcome = "OutOfGasError"
                <=> (CopyCharged.raised \/ CopyTouched.raised)
    /\ (last.op \in CopyOps /\ last.outcome = "done")
       => /\ \A j \in 0 .. Len(Top.memory) - 1 :
                Top.memory[j + 1]
                   = IF CopyDst <= j /\ j < CopyDst + CopySize
                     THEN SourceByte(CopySrc + (j - CopyDst))
                     ELSE OldMemoryByte(j)
          /\ CopySize > 0 => Len(Top.memory) >= CopyDst + CopySize
    /\ (last.op = "CALLDATACOPY" /\ last.outcome = "done" /\ CopySize = 32)
       => SubSeq(Top.memory, CopyDst + 1, CopyDst + 32)
             = to_be_bytes32(LoadedWord(CopySrc))
    /\ (last.op = "CALLDATALOAD" /\ last.outcome = "done")
       => to_be_bytes32(Top.stack[1])
             = [k \in 1 .. 32 |->
                   IF last.pre.stack[1] + k <= Len(last.pre.message.data)
                   THEN last.pre.message.data[last.pre.stack[1] + k] ELSE 0]

\* 32 bytes copied from inside the calldata to past its end, next to bytes
\* an earlier copy wrote
C14_Witness ==
    /\ last.op = "CALLDATACOPY"
    /\ last.outcome = "done"
    /\ CopySize = 32
    /\ CopySrc > 0
    /\ CopySrc < Len(CopySource)
    /\ Top.memory[CopyDst + 1] # 0
    /\ \E j \in 0 .. CopyDst - 1 : OldMemoryByte(j) # 0 /\ Top.memory[j + 1] # 0

\* ------------------------------------------------------------------ C15
\* the memory-expansion cost between what memory was and what it is
MemoryDelta ==
    calculate_memory_gas_cost(Len(Top.memory))
        - calculate_memory_gas_cost(Len(last.pre.memory))

\* C15: a copy instruction that ends normally has charged exactly its base
\* (GAS_VERY_LOW for CALLDATACOPY and CODECOPY, GAS_EXTERNAL for
\* EXTCODECOPY) + GAS_COPY * ceil(n / 32) + the memory-expansion delta, has
\* popped its operands and advanced pc by one; a cost that leaves U256
\* raises OutOfGas; with n = 0 only the base is charged and memory is as it
\* was, contents and length, whatever dst is.
C15_CopyGas ==
    /\ (last.op \in CopyOps /\ last.outcome = "done")
       => /\ last.pre.gas_left - Top.gas_left
                = (IF last.op = "EXTCODECOPY" THEN GAS_EXTERNAL ELSE GAS_VERY_LOW)
                    + GAS_COPY * ((CopySize + 31) \div 32)
                    + MemoryDelta
          /\ Top.pc = last.pre.pc + 1
          /\ Top.stack = CopyPopped
          /\ CopySize = 0
             => /\ last.pre.gas_left - Top.gas_left
                      = IF last.op = "EXTCODECOPY" THEN 20 ELSE 3
                /\ Top.memory = last.pre.memory
    /\ (last.op \in CopyOps /\ Len(last.pre.stack) >= EnvArity(last.op)
           /\ GAS_COPY * ((CopySize + 31) \div 32) + BaseCost(last.op) >= U256_CEIL)
       => last.outcome = "OutOfGasError"
    /\ (last.op \in CopyOps /\ Len(last.pre.stack) >= EnvArity(last.op)
           /\ CopySize = 0)
       => last.outcome = "done" <=> last.pre.gas_left >= BaseCost(last.op)

\* CODECOPY of 33 bytes into fresh memory: 3 + 3 * 2 + 6
C15_Witness ==
    /\ last.op = "CODECOPY"
    /\ last.outcome = "done"
    /\ CopySize = 33
    /\ last.pre.memory = <<>>
    /\ Len(Top.memory) = 64
    /\ last.pre.gas_left - Top.gas_left = 15

\* ------------------------------------------------------------------ C16
\* the instructions that run no child
Childless ==
    \/ last.op \in EnvOps \cup {"RETURN", "SELFDESTRUCT"}
    \/ /\ last.op \in {"CALL", "CALLCODE", "CREATE"}
       /\ last.outcome \in {"rejected", "collision", "error"}

\* C16: gas_left of a frame never increases across an instruction except by
\* the gas a finished child returns: after every environment instruction,
\* RETURN, SELFDESTRUCT, and every CALL, CALLCODE or CREATE that a guard or
\* a collision stops before a child runs, gas_left is at most what it was;
\* a CALL, CALLCODE or CREATE that starts a child leaves its frame with at
\* most what it had, and once the child has finished the frame has gained
\* exactly what the child had left.
C16_GasNeverIncreases ==
    /\ Childless => Top.gas_left <= last.pre.gas_left
    /\ last.outcome = "descend"
       => frames[Len(frames) - 1].gas_left <= last.pre.gas_left
    /\ last.outcome = "returned"
       => Top.gas_left - last.child.gas_left <= last.pre.gas_left

\* a CALL of more value than the balance, stopped by the guard: the fee
\* is gone and the stipend has been credited back
C16_Witness ==
    /\ last.op = "CALL"
    /\ last.outcome = "rejected"
    /\ CallValue > CallSenderBalance
    /\ Top.gas_left = last.pre.gas_left - CallMemoryFee - CallGasFee
                        + CallGas + CallStipend
    /\ Top.gas_left < last.pre.gas_left

\* ------------------------------------------------------------------ C17
ReturnOffset == last.pre.stack[1]

ReturnSize == last.pre.stack[2]

Returned == last.op = "RETURN" /\ last.outcome = "halt"

\* C17: RETURN with operands off, sz sets output to the sz bytes of memory
\* from off on (zero where nothing was written), clears running, does not
\* set has_erred, charges the memory expansion and nothing else, and leaves
\* pc and the world state as they were; no other instruction changes the
\* output of its frame, a new frame starts with an empty output, and a
\* frame that halted otherwise than by RETURN has an empty output.
C17_Return ==
    /\ Returned
       => /\ Top.output = [k \in 1 .. ReturnSize |-> OldMemoryByte(ReturnOffset + k - 1)]
          /\ ~Top.running
          /\ ~Top.has_erred
          /\ last.pre.gas_left - Top.gas_left = MemoryDelta
          /\ Top.pc = last.pre.pc
          /\ Top.stack = PopN(last.pre.stack, 2)
          /\ state = last.prestate
    /\ (~Returned /\ last.outcome \notin {"init", "descend"})
       => Top.output = last.pre.output
    /\ last.outcome = "descend"
       => /\ Top.output = <<>>
          /\ frames[Len(frames) - 1].output = last.pre.output
    /\ (~Top.running /\ ~Returned) => Top.output = <<>>
    /\ \A i \in 1 .. Len(frames) : frames[i].running => frames[i].output = <<>>

\* RETURN of two bytes of which the first was written by a copy
C17_Witness ==
    /\ Returned
    /\ ReturnSize = 2
    /\ Top.output[1] # 0
    /\ Top.output[2] = 0
    /\ Len(Top.memory) = 32

\* ------------------------------------------------------------------ C18
\* the account an account query names: the low-order bytes of its operand
Queried == last.pre.stack[1] % ADDRESS_SPACE

QueryOps == {"BALANCE", "EXTCODESIZE"}

\* C18: BALANCE and EXTCODESIZE take the low-order 20 bytes of the popped
\* word as the address, push the balance, or the code length, of that
\* account, 0 when there is no such account, for exactly 20 gas, and no
\* environment instruction changes the world state: an account that was
\* absent is absent afterwards.
C18_AccountQueries ==
    /\ (last.op \in QueryOps /\ last.outcome = "done")
       => /\ Top.stack = <<IF last.op = "BALANCE"
                           THEN last.prestate[Queried].balance
                           ELSE Len(last.prestate[Queried].code)>>
                            \o PopN(last.pre.stack, 1)
          /\ ~account_exists(last.prestate, Queried) => Top.stack[1] = 0
          /\ last.pre.gas_left - Top.gas_left = 20
          /\ Top.pc = last.pre.pc + 1
    /\ (last.op \in QueryOps /\ last.pre.stack # <<>>)
       => (last.outcome = "done" <=> last.pre.gas_left >= 20)
    /\ last.op \in EnvOps => state = last.prestate

\* BALANCE of the absent account 3 with 25 gas: 0 is pushed, 5 gas is left
C18_Witness ==
    /\ last.op = "BALANCE"
    /\ last.outcome = "done"
    /\ Queried = 3
    /\ ~account_exists(state, 3)
    /\ last.pre.gas_left = 25
    /\ Top.gas_left = 5
    /\ Top.stack[1] = 0

\* ------------------------------------------------------------------ C19
\* the output region of a CALL / CALLCODE and what the child left for it
OutputStart == last.pre.stack[6]

OutputSize == last.pre.stack[7]

ActualOutputSize == Min(OutputSize, Len(last.child.output))

\* C19: the memory of every frame is a whole number of 32-byte words after
\* every instruction, and no write changes the length the touch before it
\* set: a copy writes its n bytes inside the touched region, and a CALL or
\* CALLCODE whose child has finished, erred or not, has written exactly
\* min(out_sz, len(child.output)) bytes of the output at out_off, the rest
\* of the output region and of memory being what the touch left.
C19_MemoryLength ==
    /\ \A i \in 1 .. Len(frames) : Len(frames[i].memory) % 32 = 0
    /\ (last.op \in CopyOps /\ last.outcome = "done")
       => /\ Len(Top.memory) = Len(CopyTouched.evm.memory)
          /\ CopySize > 0 => CopyDst + CopySize <= Len(Top.memory)
          /\ \A j \in 0 .. Len(Top.memory) - 1 :
                (j < CopyDst \/ j >= CopyDst + CopySize)
                => Top.memory[j + 1] = CopyTouched.evm.memory[j + 1]
    /\ (SubCall /\ last.outcome = "returned")
       => /\ Len(Top.memory) = Len(CallTouched.memory)
          /\ OutputSize > 0 => OutputStart + OutputSize <= Len(Top.memory)
          /\ \A j \in 0 .. Len(Top.memory) - 1 :
                Top.memory[j + 1]
                    = IF OutputStart <= j /\ j < OutputStart + ActualOutputSize
                      THEN last.child.output[j - OutputStart + 1]
                      ELSE CallTouched.memory[j + 1]
    /\ (SubCall /\ last.outcome = "rejected")
       => Top.memory = CallTouched.memory
    /\ (SubCall /\ last.outcome = "descend")
       => frames[Len(frames) - 1].memory = CallTouched.memory

\* a CALLCODE with an output region of 33 bytes whose child returned two
\* bytes, the first not zero: two bytes are written, memory stays 64 long
C19_Witness ==
    /\ last.op = "CALLCODE"
    /\ last.outcome = "returned"
    /\ OutputSize = 33
    /\ Len(last.child.output) = 2
    /\ last.child.output[1] # 0
    /\ Top.memory[OutputStart + 1] = last.child.output[1]
    /\ Len(Top.memory) = 64

\* ------------------------------------------------------------------ C20
\* the nonce of the sender of the last CREATE, as the state has it now
SenderNonceNow == get_account(state, last.pre.message.current_target).nonce

CreateEntries == { i \in DOMAIN history : history[i].kind = "create" }

RollbackBetween(i, j) ==
    \E k \in DOMAIN history : i < k /\ k < j /\ history[k].kind = "rollback"

\* what one CREATE does to the nonce of its sender
CreateNonceStep ==
    /\ (last.op = "CREATE" /\ last.outcome \in {"descend", "collision"})
       => /\ ~CreateShouldReject
          /\ SenderNonceNow = CreateSender.nonce + 1
          /\ history # <<>>
          /\ history[Len(history)]
                = [kind |-> "create", sender |-> last.pre.message.current_target,
                   nonce |-> CreateSender.nonce]
          /\ last.outcome = "descend" => Top.message.current_target = CreateAddress
          /\ last.outcome = "collision"
             => account_has_code_or_nonce(state, CreateAddress)
    /\ (last.op = "CREATE" /\ last.outcome = "rejected")
       => /\ CreateShouldReject
          /\ SenderNonceNow = CreateSender.nonce
    /\ (last.op = "CREATE" /\ last.outcome = "returned")
       => /\ last.child.message.current_target = CreateAddress
          /\ last.child.has_erred => state = CreateNonceBumped
          /\ SenderNonceNow >= CreateSender.nonce + 1
    /\ \A a \in Address : get_account(state, a).nonce <= NONCE_CEIL

RECURSIVE TreeGas(_)
RECURSIVE GasOfChildren(_, _)
\* gas_left of the first n frames of a children list and of all below them
GasOfChildren(children, n) ==
    IF n = 0 THEN 0
    ELSE TreeGas(children[n]) + GasOfChildren(children, n - 1)

\* gas_left of a frame and of all its finished descendants
TreeGas(evm) == evm.gas_left + GasOfChildren(evm.children, Len(evm.children))

RECURSIVE ChildrenSettled(_)
\* every frame in the children lists below evm has gas_left 0
ChildrenSettled(evm) ==
    \A i \in 1 .. Len(evm.children) :
        /\ evm.children[i].gas_left = 0
        /\ ChildrenSettled(evm.children[i])

\* C21: gas is never credited twice. When CALL, CALLCODE or CREATE returns
\* from a child, the child is appended once, last, to the children of the
\* parent, with gas_left 0 after the credit; every frame in any children
\* list has gas_left 0; the gas_left of the parent and of all its finished
\* descendants together is at most the parent's gas_left before the
\* instruction; a rejection, a collision or an error appends no child, and
\* none is appended while the child runs.
C21_GasCreditedOnce ==
    /\ \A i \in 1 .. Len(frames) : ChildrenSettled(frames[i])
    /\ (last.op \in {"CALL", "CALLCODE", "CREATE"} /\ last.outcome = "returned")
       => /\ Top.children
                = Append(last.pre.children, [last.child EXCEPT !.gas_left = 0])
          /\ Top.gas_left <= last.pre.gas_left
          /\ TreeGas(Top) <= last.pre.gas_left
          /\ last.op = "CREATE" => Top.gas_left = last.child.gas_left
    /\ (last.op \in {"CALL", "CALLCODE", "CREATE"}
           /\ last.outcome \in {"rejected", "collision", "error"})
       => Top.children = last.pre.children
    /\ (last.op \in {"CALL", "CALLCODE", "CREATE"} /\ last.outcome = "descend")
       => /\ frames[Len(frames) - 1].children = last.pre.children
          /\ Top.children = <<>>

\* the second child of a frame has come back from a CALL with gas left:
\* both children are in the list, in order, with gas_left 0
C21_Witness ==
    /\ last.op = "CALL"
    /\ last.outcome = "returned"
    /\ last.child.gas_left > 0
    /\ Len(Top.children) = 2
    /\ Top.children[1].gas_left = 0
    /\ Top.children[2].gas_left = 0
    /\ Top.children[2].message = last.child.message
    /\ Top.gas_left < last.pre.gas_left

====
